---------------------------- MODULE Spec2Model ----------------------------
(***************************************************************************)
(* Model of dummy_dataset.py: the synthetic fuel-quality / pump-failure    *)
(* dataset generator.                                                      *)
(*                                                                         *)
(* Numbers.  Python floats are modelled by exact fixed-point integers:     *)
(*   - a metric before rounding is an integer count of 1/10000 units;      *)
(*   - a metric rounded to 2 decimals (round(x, 2)) is a count of          *)
(*     hundredths, one rounded to 3 decimals a count of thousandths;       *)
(*   - the U(0.8, 1.2) multiplier is a count of hundredths (80 .. 120);    *)
(*   - a failure time is a count of hundredths of an hour.                 *)
(* Division and rounding are carried out exactly (round-half-even), so the *)
(* model abstracts from binary floating-point representation error only.   *)
(***************************************************************************)
EXTENDS Integers, Sequences, FiniteSets, TLC

VARIABLES
    pc,         \* position of the script / of the function call
    ft_fq,      \* argument of generate_failure_time: the fuel_quality row
    ft_u,       \* the np.random.uniform(0.8, 1.2) draw inside the call
    ft_ret,     \* value returned by generate_failure_time (<<>> before)
    rng,        \* state of the np.random generator
    si,         \* index into ships of the outer loop (line 45)
    ti,         \* index into fuel_tanks of the inner loop (line 46)
    start,      \* the eight starting points (lines 48-55)
    vals,       \* the eight *_vals arrays (lines 58-65, 70-77)
    reset_points, \* line 68
    rk,         \* index into reset_points of the loop of line 69
    data,       \* the list of rows (lines 44, 81)
    df,         \* line 98
    fr,         \* row index of df.iterrows() (line 102)
    fe,         \* index of the engine in engines.items() (line 113)
    fp,         \* pump_num (line 114)
    failure_data_complete,  \* lines 101, 119
    failure_df_complete,    \* line 129
    merged_df_complete,     \* line 132
    reordered_df_complete,  \* line 141
    csv         \* the file written at line 145

ftvars == <<ft_fq, ft_u, ft_ret>>

seriesvars == <<start, vals, reset_points, rk>>

loopvars == <<fr, fe, fp>>

framevars == <<failure_df_complete, merged_df_complete, reordered_df_complete, csv>>

vars == <<pc, ft_fq, ft_u, ft_ret, rng, si, ti, start, vals, reset_points, rk,
          data, df, fr, fe, fp, failure_data_complete, failure_df_complete,
          merged_df_complete, reordered_df_complete, csv>>

Max(a, b) == IF a >= b THEN a ELSE b

(***************************************************************************)
(* Column names (lines 94-96).                                             *)
(***************************************************************************)
DENSITY == "Density (kg/m3)"
WREACT  == "Water Reaction Vol Change (ml)"
FLASH   == "Flash Point (celsius)"
FBT     == "Filter Blocking Tendency"
CLOUD   == "Cloud Point (celsius)"
SULPHUR == "Sulphur (%)"
CFU     == "Colony Forming Units (CFU/ml)"
WATER   == "Water content (mg/kg)"

(***************************************************************************)
(* Exact arithmetic helpers.                                               *)
(* MulDiv(a, b, n) = <<q, r>> with a*b = q*n + r and 0 <= r < n, computed  *)
(* by binary decomposition of a so that no intermediate exceeds 3*n.       *)
(***************************************************************************)
RECURSIVE MulDiv(_, _, _)
MulDiv(a, b, n) ==
    IF a = 0 THEN <<0, 0>>
    ELSE LET h   == MulDiv(a \div 2, b, n)
             odd == a % 2
             rr  == 2 * h[2] + odd * (b % n)
         IN  <<2 * h[1] + odd * (b \div n) + rr \div n, rr % n>>

\* Nearest integer to q + r/n, ties to the even neighbour (Python's round).
RoundHalfEven(q, r, n) ==
    IF 2 * r > n THEN q + 1
    ELSE IF 2 * r = n THEN q + (q % 2)
    ELSE q

(***************************************************************************)
(* generate_failure_time (lines 29-41).                                    *)
(***************************************************************************)
\* max(field, 1), the field in hundredths (lines 30-32)
AvoidZero(v) == Max(v, 100)

\* base_failure_time = 10000 hours (line 35)
base_failure_time == 10000

\* Denominator of degradation_factor: cfu/100 + water/200 + fb/3 over the
\* common denominator 600 with the three fields in hundredths (x100) and the
\* multiplier in hundredths (x100).
FactorDen == 6000000

\* Variant of degradation_factor with the cfu term inverted (100 / cfu).
degradation_factor_inverted_cfu(cfu, water_content, filter_block, u) ==
    ((600000000 \div cfu) + 3 * water_content + 200 * filter_block) * u

\* Variant of degradation_factor dividing the water content by 100, not 200.
degradation_factor_water_100(cfu, water_content, filter_block, u) ==
    (6 * cfu + 6 * water_content + 200 * filter_block) * u

\* Numerator of degradation_factor (line 36):
\* ((cfu/100) + (water_content/200) + filter_block/3) * u  =  result / FactorDen
degradation_factor(cfu, water_content, filter_block, u) ==
    (6 * cfu + 3 * water_content + 200 * filter_block) * u

\* The floor of line 39, in hours.
min_failure_time == 200

\* Variant of time_til_failure without the max(200, .) floor.
time_til_failure_unclamped(num) ==
    LET d == MulDiv(base_failure_time * 100, FactorDen, num)
    IN  RoundHalfEven(d[1], d[2], num)

\* max(200, base_failure_time / degradation_factor), rounded to 2 decimals and
\* returned in hundredths of an hour (lines 39, 41); num is the numerator of
\* degradation_factor, so base_failure_time / degradation_factor is
\* base_failure_time * FactorDen / num.
time_til_failure(num) ==
    IF num >= (base_failure_time \div min_failure_time) * FactorDen
    THEN min_failure_time * 100
    ELSE LET d == MulDiv(base_failure_time * 100, FactorDen, num)
         IN  RoundHalfEven(d[1], d[2], num)

\* Variant of generate_failure_time that does not floor the filter blocking value.
generate_failure_time_unfloored_fb(fuel_quality, u) ==
    LET cfu           == AvoidZero(fuel_quality[CFU])
        water_content == AvoidZero(fuel_quality[WATER])
        filter_block  == fuel_quality[FBT]
    IN  time_til_failure(degradation_factor(cfu, water_content, filter_block, u))

generate_failure_time(fuel_quality, u) ==
    LET cfu           == AvoidZero(fuel_quality[CFU])
        water_content == AvoidZero(fuel_quality[WATER])
        filter_block  == AvoidZero(fuel_quality[FBT])
    IN  time_til_failure(degradation_factor(cfu, water_content, filter_block, u))

(***************************************************************************)
(* Module-level constants of the script.                                   *)
(***************************************************************************)
ships == <<"QNLZ", "PWLS">>

fuel_tanks == <<"FWD DG RU", "AFT DG RU">>

\* len(date_range): 46 month starts in the script (lines 10-12), scaled down.
NumMonths == 6

\* date_range (line 12): month starts from 2021-01-01, as <<year, month, day>>.
date_range == [i \in 1..NumMonths |-> <<2021 + (i - 1) \div 12, ((i - 1) % 12) + 1, 1>>]

Pad2(n) == IF n < 10 THEN "0" \o ToString(n) ELSE ToString(n)

\* date.strftime('%Y-%m-%d') (line 82)
strftime(d) == ToString(d[1]) \o "-" \o Pad2(d[2]) \o "-" \o Pad2(d[3])

\* The eight metrics in the order of lines 48-55, 58-65, 70-77 and 83-90.
Metrics == <<DENSITY, WREACT, FLASH, FBT, CLOUD, SULPHUR, CFU, WATER>>

MetricSet == {Metrics[j] : j \in DOMAIN Metrics}

MetricIndex(m) == CHOOSE j \in DOMAIN Metrics : Metrics[j] = m

\* The *_range tuples (lines 19-26), in 1/10000 units.
base_range ==
    (DENSITY :> <<8000000, 8200000>>) @@ (WREACT :> <<5000, 25000>>) @@
    (FLASH :> <<600000, 700000>>) @@ (FBT :> <<10000, 30000>>) @@
    (CLOUD :> <<-100000, 50000>>) @@ (SULPHUR :> <<500, 3000>>) @@
    (CFU :> <<100000, 1000000>>) @@ (WATER :> <<500000, 2000000>>)

\* The drift= arguments of lines 58-65, in 1/10000 units.
drift_of ==
    (DENSITY :> 5000) @@ (WREACT :> 1000) @@ (FLASH :> 5000) @@ (FBT :> 2000) @@
    (CLOUD :> 2000) @@ (SULPHUR :> 100) @@ (CFU :> 50000) @@ (WATER :> 100000)

\* The default noise=0.005 of gradual_degrade (line 15), in 1/10000 units.
noise_sd == 50

\* The ndigits of the round() calls of lines 83-90.
round_digits ==
    (DENSITY :> 2) @@ (WREACT :> 2) @@ (FLASH :> 2) @@ (FBT :> 2) @@
    (CLOUD :> 2) @@ (SULPHUR :> 3) @@ (CFU :> 2) @@ (WATER :> 2)

\* round(x, ndigits) of a value in 1/10000 units: hundredths or thousandths.
RoundTo(x, ndigits) ==
    LET n == IF ndigits = 2 THEN 100 ELSE 10
    IN  RoundHalfEven(x \div n, x % n, n)

(***************************************************************************)
(* np.random.  The generator is a deterministic function of its state; the *)
(* seed is unknown (the script never seeds it), so Init draws it.  The     *)
(* Mersenne Twister is replaced by a full-period linear congruential       *)
(* generator over RngMod states; a state s stands for the fraction         *)
(* s / RngMod of [0, 1).                                                   *)
(***************************************************************************)
RngMod == 1024

\* Number of seeds explored, and the largest |z| of a normal draw sd * z.
NumSeeds == 16

NoiseZ == 3

RngMul == 261

RngInc == 83

RngNext(s) == (RngMul * s + RngInc) % RngMod

\* RngMul^k modulo RngMod, by repeated squaring.
RECURSIVE PowMod(_)
PowMod(k) ==
    IF k = 0 THEN 1
    ELSE LET h == PowMod(k \div 2)
         IN  (((h * h) % RngMod) * (IF k % 2 = 1 THEN RngMul ELSE 1)) % RngMod

\* 1 + RngMul + ... + RngMul^(k-1) modulo RngMod.
RECURSIVE GeoSum(_)
GeoSum(k) ==
    IF k = 0 THEN 0
    ELSE IF k % 2 = 1 THEN (1 + RngMul * GeoSum(k - 1)) % RngMod
    ELSE (GeoSum(k \div 2) * (1 + PowMod(k \div 2))) % RngMod

\* The generator state after k further draws: RngNext applied k times.
RngAt(s, k) == (PowMod(k) * s + RngInc * GeoSum(k)) % RngMod

\* np.random.uniform(low, high): a value of [low, high)
uniform(low, high, s) == low + ((high - low) * s) \div RngMod

\* np.random.normal(0, sd): sd * z with z in -NoiseZ .. NoiseZ
normal(sd, s) == sd * (((2 * NoiseZ + 1) * s) \div RngMod - NoiseZ)

RemoveAt(seq, j) == SubSeq(seq, 1, j - 1) \o SubSeq(seq, j + 1, Len(seq))

\* np.random.choice(pool, size=size, replace=False) (line 68): one draw per
\* element, each from what is left of the pool.
RECURSIVE choice(_, _, _)
choice(pool, size, s) ==
    IF size = 0 THEN <<>>
    ELSE LET s1 == RngNext(s)
             j  == 1 + (Len(pool) * s1) \div RngMod
         IN  <<pool[j]>> \o choice(RemoveAt(pool, j), size - 1, s1)

\* Number of indices reset per series: size=3 (line 68).
NumResets == 3

(***************************************************************************)
(* gradual_degrade (lines 15-16).  Index i of the model is index i - 1 of  *)
(* the script; noise[i] is the np.random.normal draw of element i.         *)
(***************************************************************************)
\* Variant of gradual_degrade without np.clip.
gradual_degrade_unclipped(start_value, months, drift, noise) ==
    [i \in 1..months |-> start_value - ((i - 1) * drift) + noise[i]]

gradual_degrade(start_value, months, drift, noise) ==
    [i \in 1..months |-> Max(start_value - ((i - 1) * drift) + noise[i], 0)]

\* Eight uniform draws, one per metric from its base range, in the order of
\* Metrics (lines 48-55 and 70-77), starting after generator state s.
UniformDraws(s) ==
    [m \in MetricSet |->
        uniform(base_range[m][1], base_range[m][2], RngAt(s, MetricIndex(m)))]

\* Variant of ResetValues that misses the cloud point array's index by one.
ResetValuesShifted(v, rp, fresh) ==
    [m \in MetricSet |->
        IF m = CLOUD THEN [v[m] EXCEPT ![(rp % NumMonths) + 1] = fresh[m]]
                     ELSE [v[m] EXCEPT ![rp] = fresh[m]]]

\* The body of the loop of lines 69-77: overwrite index rp of every array.
ResetValues(v, rp, fresh) ==
    [m \in MetricSet |-> [v[m] EXCEPT ![rp] = fresh[m]]]

\* The rows appended by lines 80-91 for one (ship, fuel tank) series.
SeriesRows(ship, fuel_tank, v) ==
    [i \in 1..NumMonths |->
        <<ship, fuel_tank, strftime(date_range[i])>> \o
        [j \in DOMAIN Metrics |-> RoundTo(v[Metrics[j]][i], round_digits[Metrics[j]])]]

(***************************************************************************)
(* The dataset generation loop (lines 44-91).                              *)
(***************************************************************************)
\* lines 48-55
DrawStart ==
    /\ pc = "draw_start"
    /\ start' = UniformDraws(rng)
    /\ rng' = RngAt(rng, Len(Metrics))
    /\ pc' = "degrade"
    /\ UNCHANGED <<ftvars, si, ti, vals, reset_points, rk, data, df, loopvars,
                   failure_data_complete, framevars>>

\* lines 58-65: eight calls of gradual_degrade, each drawing NumMonths normals
Degrade ==
    /\ pc = "degrade"
    /\ vals' = [m \in MetricSet |->
                  gradual_degrade(start[m], NumMonths, drift_of[m],
                      [i \in 1..NumMonths |->
                          normal(noise_sd, RngAt(rng, (MetricIndex(m) - 1) * NumMonths + i))])]
    /\ rng' = RngAt(rng, Len(Metrics) * NumMonths)
    /\ pc' = "choose_reset"
    /\ UNCHANGED <<ftvars, si, ti, start, reset_points, rk, data, df, loopvars,
                   failure_data_complete, framevars>>

\* line 68
ChooseReset ==
    /\ pc = "choose_reset"
    /\ reset_points' = choice([i \in 1..NumMonths |-> i], NumResets, rng)
    /\ rng' = RngAt(rng, NumResets)
    /\ rk' = 1
    /\ pc' = "reset"
    /\ UNCHANGED <<ftvars, si, ti, start, vals, data, df, loopvars,
                   failure_data_complete, framevars>>

\* lines 69-77: one iteration of the loop over reset_points
ResetStep ==
    /\ pc = "reset"
    /\ vals' = ResetValues(vals, reset_points[rk], UniformDraws(rng))
    /\ rng' = RngAt(rng, Len(Metrics))
    /\ IF rk < Len(reset_points)
       THEN rk' = rk + 1 /\ pc' = "reset"
       ELSE rk' = rk /\ pc' = "rows"
    /\ UNCHANGED <<ftvars, si, ti, start, reset_points, data, df, loopvars,
                   failure_data_complete, framevars>>

\* lines 80-91, then the next iteration of the loops of lines 45-46
CreateRows ==
    /\ pc = "rows"
    /\ data' = data \o SeriesRows(ships[si], fuel_tanks[ti], vals)
    /\ IF ti < Len(fuel_tanks)
       THEN si' = si /\ ti' = ti + 1 /\ pc' = "draw_start"
       ELSE IF si < Len(ships)
       THEN si' = si + 1 /\ ti' = 1 /\ pc' = "draw_start"
       ELSE si' = si /\ ti' = ti /\ pc' = "make_df"
    /\ UNCHANGED <<ftvars, rng, seriesvars, df, loopvars,
                   failure_data_complete, framevars>>

(***************************************************************************)
(* pandas.  A DataFrame is [columns, rows]: the column labels in order     *)
(* (duplicates allowed) and the rows in positional order 0, 1, ..., each   *)
(* row a sequence of cells.  A cell is <<v>> for a value v and NaN for a   *)
(* missing one.  The row index of every frame here is the default          *)
(* RangeIndex, which reset_index(drop=True) (line 132) leaves as it is.    *)
(***************************************************************************)
NaN == <<>>

Cell(v) == <<v>>

\* A name not yet assigned.
None == <<>>

\* columns (lines 94-96)
columns == <<"Ship", "Fuel Tank", "Date">> \o Metrics

\* cols_order_complete (lines 135-138)
cols_order_complete ==
    <<"Ship", "Engine", "Engine ID", "Fuel Pump ID", "Time Til Failure (hours)",
      "Fuel Tank Feed", "Fuel Tank", "Date", DENSITY, WREACT, FLASH, FBT, CLOUD,
      SULPHUR, CFU, WATER>>

\* pd.DataFrame(list_of_rows, columns=labels) (line 98)
DataFrame(rows, labels) ==
    [columns |-> labels,
     rows    |-> [k \in DOMAIN rows |-> [j \in DOMAIN labels |-> Cell(rows[k][j])]]]

\* A dict is a sequence of <<key, value>> pairs in insertion order.
DictKeys(d) == [j \in DOMAIN d |-> d[j][1]]

DictGet(d, key) ==
    IF \E j \in DOMAIN d : d[j][1] = key
    THEN Cell(d[CHOOSE j \in DOMAIN d : d[j][1] = key][2])
    ELSE NaN

\* pd.DataFrame(list_of_dicts) (line 129): the columns are the keys in the
\* order of their first appearance (every dict here has the same keys).
DataFrameFromDicts(ds) ==
    IF ds = <<>> THEN [columns |-> <<>>, rows |-> <<>>]
    ELSE LET labels == DictKeys(ds[1])
         IN  [columns |-> labels,
              rows    |-> [k \in DOMAIN ds |->
                              [j \in DOMAIN labels |-> DictGet(ds[k], labels[j])]]]

\* Row k of a frame, or a row of NaN where the frame has no row k.
PadRow(frame, k) ==
    IF k \in DOMAIN frame.rows THEN frame.rows[k]
    ELSE [j \in DOMAIN frame.columns |-> NaN]

\* Variant of concat_axis1 that keeps only the rows both frames have.
concat_axis1_inner(a, b) ==
    [columns |-> a.columns \o b.columns,
     rows    |-> [k \in (DOMAIN a.rows) \cap (DOMAIN b.rows) |-> PadRow(a, k) \o PadRow(b, k)]]

\* pd.concat([a, b], axis=1) (line 132): outer join on the row index, the
\* columns of a followed by the columns of b, labels not deduplicated.
concat_axis1(a, b) ==
    [columns |-> a.columns \o b.columns,
     rows    |-> [k \in 1..Max(Len(a.rows), Len(b.rows)) |-> PadRow(a, k) \o PadRow(b, k)]]

\* The positions of the columns labelled name, ascending.
LabelPositions(labels, name) ==
    SelectSeq([j \in DOMAIN labels |-> j], LAMBDA j : labels[j] = name)

RECURSIVE Flatten(_)
Flatten(ss) == IF ss = <<>> THEN <<>> ELSE Head(ss) \o Flatten(Tail(ss))

\* frame[names] (line 141): for each name in turn, every column carrying that
\* label.  (A name no column carries raises KeyError.)
GetColumns(frame, names) ==
    LET idx == Flatten([n \in DOMAIN names |-> LabelPositions(frame.columns, names[n])])
    IN  [columns |-> [j \in DOMAIN idx |-> frame.columns[idx[j]]],
         rows    |-> [k \in DOMAIN frame.rows |->
                         [j \in DOMAIN idx |-> frame.rows[k][idx[j]]]]]

\* row = one (index, Series) of df.iterrows() (line 102): label -> value.
RowSeries(frame, k) ==
    [c \in {frame.columns[j] : j \in DOMAIN frame.columns} |->
        frame.rows[k][CHOOSE j \in DOMAIN frame.columns : frame.columns[j] = c][1]]

\* Decimal digits of a numeric column's fixed-point values.
ColumnDigits(label) == IF label = SULPHUR THEN 3 ELSE 2

IsNumericColumn(label) == label \in MetricSet \cup {"Time Til Failure (hours)"}

RECURSIVE StripZeros(_, _)
\* The d-digit fraction frac without its trailing zeros, as <<value, digits>>.
StripZeros(frac, d) ==
    IF d > 1 /\ frac % 10 = 0 THEN StripZeros(frac \div 10, d - 1) ELSE <<frac, d>>

RECURSIVE PadDigits(_, _)
\* n written with exactly d digits.
PadDigits(n, d) ==
    IF d = 0 THEN "" ELSE PadDigits(n \div 10, d - 1) \o ToString(n % 10)

\* The text of the float x / 10^d (its shortest repr): 81230 -> "812.3".
\* (A negative zero is written as 0.0.)
FormatFloat(x, d) ==
    LET a     == IF x < 0 THEN -x ELSE x
        scale == IF d = 3 THEN 1000 ELSE 100
        f     == StripZeros(a % scale, d)
    IN  (IF x < 0 THEN "-" ELSE "") \o ToString(a \div scale) \o "." \o PadDigits(f[1], f[2])

\* One field of the CSV: empty for NaN, the text of the value otherwise.
CsvField(label, cell) ==
    IF cell = NaN THEN ""
    ELSE IF IsNumericColumn(label) THEN FormatFloat(cell[1], ColumnDigits(label))
    ELSE cell[1]

\* frame.to_csv(path, index=False) (line 145): a header line and one line per row.
to_csv(frame) ==
    [header |-> frame.columns,
     rows   |-> [k \in DOMAIN frame.rows |->
                    [j \in DOMAIN frame.columns |->
                        CsvField(frame.columns[j], frame.rows[k][j])]]]

(***************************************************************************)
(* The failure data loop (lines 100-126).                                  *)
(***************************************************************************)
\* Variant of engines_of giving the aft engines 16 pumps as well.
engines_of_all_16(fuel_tank) ==
    IF fuel_tank = "FWD DG RU"
    THEN << <<"DG1", 16>>, <<"DG2", 16>> >>
    ELSE << <<"DG3", 16>>, <<"DG4", 16>> >>

\* engines (lines 107-110): an ordered dict engine -> number of pumps
engines_of(fuel_tank) ==
    IF fuel_tank = "FWD DG RU"
    THEN << <<"DG1", 16>>, <<"DG2", 16>> >>
    ELSE << <<"DG3", 12>>, <<"DG4", 12>> >>

\* The dict appended at lines 119-126.
FailureRecord(ship, engine, pump_num, ttf, fuel_tank) ==
    << <<"Ship", ship>>,
       <<"Engine", engine>>,
       <<"Engine ID", ship \o "_" \o engine>>,
       <<"Fuel Pump ID", engine \o "_Pump_" \o ToString(pump_num)>>,
       <<"Time Til Failure (hours)", ttf>>,
       <<"Fuel Tank Feed", fuel_tank>> >>

\* line 98, and entry into the loop of line 102
MakeDf ==
    /\ pc = "make_df"
    /\ df' = DataFrame(data, columns)
    /\ failure_data_complete' = <<>>
    /\ fr' = 1 /\ fe' = 1 /\ fp' = 1
    /\ pc' = IF data = <<>> THEN "failure_df" ELSE "failure"
    /\ UNCHANGED <<ftvars, rng, si, ti, seriesvars, data, framevars>>

\* One iteration of the innermost loop (lines 114-126), then the step of
\* the loops of lines 114, 113 and 102.
FailureStep ==
    /\ pc = "failure"
    /\ LET row       == RowSeries(df, fr)
           ship      == row["Ship"]
           fuel_tank == row["Fuel Tank"]
           engines   == engines_of(fuel_tank)
           engine    == engines[fe][1]
           num_pumps == engines[fe][2]
           s1        == RngNext(rng)
           ttf       == generate_failure_time(row, uniform(80, 120, s1))
       IN  /\ failure_data_complete' =
                Append(failure_data_complete,
                       FailureRecord(ship, engine, fp, ttf, fuel_tank))
           /\ rng' = s1
           /\ IF fp < num_pumps
              THEN fp' = fp + 1 /\ fe' = fe /\ fr' = fr /\ pc' = "failure"
              ELSE IF fe < Len(engines)
              THEN fp' = 1 /\ fe' = fe + 1 /\ fr' = fr /\ pc' = "failure"
              ELSE IF fr < Len(df.rows)
              THEN fp' = 1 /\ fe' = 1 /\ fr' = fr + 1 /\ pc' = "failure"
              ELSE fp' = fp /\ fe' = fe /\ fr' = fr /\ pc' = "failure_df"
    /\ UNCHANGED <<ftvars, si, ti, seriesvars, data, df, framevars>>

\* line 129
MakeFailureDf ==
    /\ pc = "failure_df"
    /\ failure_df_complete' = DataFrameFromDicts(failure_data_complete)
    /\ pc' = "concat"
    /\ UNCHANGED <<ftvars, rng, si, ti, seriesvars, data, df, loopvars,
                   failure_data_complete, merged_df_complete,
                   reordered_df_complete, csv>>

\* line 132
Concat ==
    /\ pc = "concat"
    /\ merged_df_complete' = concat_axis1(df, failure_df_complete)
    /\ pc' = "reorder"
    /\ UNCHANGED <<ftvars, rng, si, ti, seriesvars, data, df, loopvars,
                   failure_data_complete, failure_df_complete,
                   reordered_df_complete, csv>>

\* line 141
Reorder ==
    /\ pc = "reorder"
    /\ IF \A n \in DOMAIN cols_order_complete :
            LabelPositions(merged_df_complete.columns, cols_order_complete[n]) # <<>>
       THEN /\ reordered_df_complete' = GetColumns(merged_df_complete, cols_order_complete)
            /\ pc' = "to_csv"
       ELSE /\ reordered_df_complete' = reordered_df_complete
            /\ pc' = "KeyError"
    /\ UNCHANGED <<ftvars, rng, si, ti, seriesvars, data, df, loopvars,
                   failure_data_complete, failure_df_complete,
                   merged_df_complete, csv>>

\* lines 144-145
ToCsv ==
    /\ pc = "to_csv"
    /\ csv' = to_csv(reordered_df_complete)
    /\ pc' = "done"
    /\ UNCHANGED <<ftvars, rng, si, ti, seriesvars, data, df, loopvars,
                   failure_data_complete, failure_df_complete,
                   merged_df_complete, reordered_df_complete>>

\* The seeds explored, spread over the generator's states.
Seeds == {(k * 131) % RngMod : k \in 0..(NumSeeds - 1)}

\* State of the script before its first statement runs.
ScriptStart ==
    /\ si = 1 /\ ti = 1
    /\ start = None /\ vals = None /\ reset_points = None /\ rk = 0
    /\ data = <<>>
    /\ df = None
    /\ fr = 0 /\ fe = 0 /\ fp = 0
    /\ failure_data_complete = None
    /\ failure_df_complete = None
    /\ merged_df_complete = None
    /\ reordered_df_complete = None
    /\ csv = None

Init ==
    /\ pc = "draw_start"
    /\ rng \in Seeds
    /\ ft_fq = None /\ ft_u = 0 /\ ft_ret = <<>>
    /\ ScriptStart

Next ==
    \/ DrawStart
    \/ Degrade
    \/ ChooseReset
    \/ ResetStep
    \/ CreateRows
    \/ MakeDf
    \/ FailureStep
    \/ MakeFailureDf
    \/ Concat
    \/ Reorder
    \/ ToCsv

Spec == Init /\ [][Next]_vars

(***************************************************************************)
(* Bounded inputs of the function-level specification SpecFT.              *)
(***************************************************************************)
GridSize == 4

MultSteps == 4

\* cfu in hundredths: below 1, at 1, in range (10 .. 100), far out of range
CfuGrid == {0, 50, 100, 150} \cup {2500 * k : k \in 1..GridSize} \cup {250000}

\* water content in hundredths
WaterGrid == {0, 50, 100} \cup {5000 * k : k \in 1..GridSize} \cup {500000}

\* filter blocking tendency in hundredths
FbGrid == {0, 50, 100} \cup {75 * k : k \in 1..GridSize} \cup {7500}

\* the multiplier in hundredths, 0.8 .. 1.2
MultGrid == {80, 100, 120} \cup {80 + (40 * k) \div MultSteps : k \in 0..MultSteps}

Sample(c, w, f) == (CFU :> c) @@ (WATER :> w) @@ (FBT :> f)

InitFT ==
    /\ pc = "ft_call"
    /\ \E c \in CfuGrid, w \in WaterGrid, f \in FbGrid : ft_fq = Sample(c, w, f)
    /\ ft_u \in MultGrid
    /\ ft_ret = <<>>
    /\ rng = 0
    /\ ScriptStart

\* One call of generate_failure_time on the drawn sample.
FTCall ==
    /\ pc = "ft_call"
    /\ ft_ret' = <<generate_failure_time(ft_fq, ft_u)>>
    /\ pc' = "ft_ret"
    /\ UNCHANGED <<ft_fq, ft_u, rng, si, ti, seriesvars, data, df, loopvars,
                   failure_data_complete, framevars>>

NextFT == FTCall

SpecFT == InitFT /\ [][NextFT]_vars

(***************************************************************************)
(* Claims about generate_failure_time, checked under SpecFT.               *)
(***************************************************************************)
FTReturned == pc = "ft_ret"

\* The divisor of line 39 for the current call, as a numerator over FactorDen.
FTDivisor ==
    degradation_factor(AvoidZero(ft_fq[CFU]), AvoidZero(ft_fq[WATER]),
                       AvoidZero(ft_fq[FBT]), ft_u)

\* C1: every value returned by generate_failure_time is >= 200 hours, for every
\* sample (fields of 0 or below 1 included) and every multiplier in [0.8, 1.2],
\* and the divisor degradation_factor is strictly positive.
C1_FailureTimeAtLeast200 ==
    FTReturned => /\ ft_ret[1] >= 200 * 100
                  /\ FTDivisor > 0

\* C1 witness: a sample with zero fields and one below 1 was processed.
C1_Witness ==
    /\ FTReturned
    /\ ft_fq[CFU] = 0 /\ ft_fq[WATER] = 0 /\ ft_fq[FBT] = 50
    /\ ft_ret[1] > 200 * 100

\* C5: holding the multiplier and two fields fixed, raising the third field
\* never raises the returned failure time.
C5_MonotoneNonIncreasing ==
    FTReturned =>
        /\ \A c \in CfuGrid : c >= ft_fq[CFU] =>
              generate_failure_time([ft_fq EXCEPT ![CFU] = c], ft_u) <= ft_ret[1]
        /\ \A w \in WaterGrid : w >= ft_fq[WATER] =>
              generate_failure_time([ft_fq EXCEPT ![WATER] = w], ft_u) <= ft_ret[1]
        /\ \A f \in FbGrid : f >= ft_fq[FBT] =>
              generate_failure_time([ft_fq EXCEPT ![FBT] = f], ft_u) <= ft_ret[1]

\* C5 witness: a returned value for which a larger cfu gives a strictly
\* shorter failure time.
C5_Witness ==
    /\ FTReturned
    /\ \E c \in CfuGrid : /\ c > ft_fq[CFU]
                           /\ generate_failure_time([ft_fq EXCEPT ![CFU] = c], ft_u) < ft_ret[1]

\* The example call: cfu = 1, water content = 1, filter block = 1, multiplier 1.0.
C6_Case == FTReturned /\ ft_fq = Sample(100, 100, 100) /\ ft_u = 100

\* C6 as stated: the example call returns 28735.63.
C6_Original == C6_Case => ft_ret[1] = 2873563

\* C6 amended: the example call is not clamped to 200 and returns 28708.13
\* (10000 / (0.01 + 0.005 + 1/3), the third not truncated to 0.333).
C6_ExampleValue == C6_Case => ft_ret[1] = 2870813 /\ ft_ret[1] # 200 * 100

\* C6 witness: the example call has returned.
C6_Witness == C6_Case

\* The rounded value r (hundredths) is a nearest hundredth of
\* 100 * base_failure_time * FactorDen / num, that is
\* (2r - 1) * num <= 2 * 10^6 * FactorDen <= (2r + 1) * num, the products
\* written in base 10^6.
NearestHundredth(r, num) ==
    LET lo == MulDiv(2 * r - 1, num, 1000000)
        hi == MulDiv(2 * r + 1, num, 1000000)
        target == 2 * FactorDen
    IN  /\ lo[1] < target \/ (lo[1] = target /\ lo[2] = 0)
        /\ hi[1] >= target

\* C7: the returned value is max(200, 10000 / ((c/100 + w/200 + f/3) * m))
\* rounded to 2 decimals, with c, w, f floored at 1; the example
\* (100, 200, 3, 1.0) gives 3333.33; a field below 1 behaves as that field = 1.
C7_Formula ==
    FTReturned =>
        /\ IF FTDivisor >= 50 * FactorDen
           THEN ft_ret[1] = 200 * 100
           ELSE ft_ret[1] >= 200 * 100 /\ NearestHundredth(ft_ret[1], FTDivisor)
        /\ (ft_fq = Sample(10000, 20000, 300) /\ ft_u = 100) => ft_ret[1] = 333333
        /\ ft_ret[1] = generate_failure_time(
                           Sample(Max(ft_fq[CFU], 100), Max(ft_fq[WATER], 100),
                                  Max(ft_fq[FBT], 100)), ft_u)

\* C7 witness: a call with a field below 1 that was not clamped.
C7_Witness ==
    /\ FTReturned
    /\ ft_fq[FBT] = 50 /\ ft_fq[CFU] = 10000 /\ ft_fq[WATER] = 20000
    /\ ft_ret[1] > 200 * 100

(***************************************************************************)
(* Claims about the script, checked under Spec.                            *)
(***************************************************************************)
\* Position of metric m in a row of data (after Ship, Fuel Tank, Date).
DataCol(m) == 3 + MetricIndex(m)

\* The reset points already applied to vals.
AppliedResets ==
    IF pc = "reset" THEN {reset_points[j] : j \in 1..(rk - 1)}
    ELSE IF pc = "rows" THEN {reset_points[j] : j \in DOMAIN reset_points}
    ELSE {}

\* C2 as stated: every metric value written into the data rows is >= 0.
C2_Original ==
    \A k \in DOMAIN data : \A m \in MetricSet : data[k][DataCol(m)] >= 0

\* C2 amended: gradual_degrade's output is >= 0 at every index; after the
\* resets every metric other than cloud point is >= 0 at every index, and
\* cloud point is >= 0 except at reset indices, where it is a fresh draw from
\* (-10, 5) and so >= -10; the same holds of the values written into data.
C2_NonNegativeExceptResetCloud ==
    /\ pc = "choose_reset" =>
          \A m \in MetricSet : \A i \in 1..NumMonths : vals[m][i] >= 0
    /\ pc \in {"reset", "rows"} =>
          \A m \in MetricSet : \A i \in 1..NumMonths :
              \/ vals[m][i] >= 0
              \/ m = CLOUD /\ i \in AppliedResets /\ vals[m][i] >= -100000
    /\ \A k \in DOMAIN data : \A m \in MetricSet :
          IF m = CLOUD THEN data[k][DataCol(m)] >= -1000
                       ELSE data[k][DataCol(m)] >= 0

\* C2 witness: the rows hold a cloud point clipped to 0 by gradual_degrade
\* and a negative cloud point written by a reset.
C2_Witness ==
    /\ \E k \in DOMAIN data : data[k][DataCol(CLOUD)] = 0
    /\ \E k \in DOMAIN data : data[k][DataCol(CLOUD)] < 0

\* C3 as stated: the header of the written CSV is exactly cols_order_complete.
C3_Original == pc = "done" => csv.header = cols_order_complete

\* Field of row k of the CSV under the (first) column labelled label.
CsvGet(k, label) == csv.rows[k][LabelPositions(csv.header, label)[1]]

\* C4: the number of data rows of the CSV is the cross-product size, the sum
\* over ships, tanks and months of the pumps fed by the tank (16+16, 12+12),
\* and every (ship, tank, engine, pump) occurs once per month.
C4_RowCount ==
    pc = "done" =>
        /\ Len(csv.rows) = Len(ships) * NumMonths * ((16 + 16) + (12 + 12))
        /\ \A a \in DOMAIN ships :
           \A c \in {<<"FWD DG RU", "DG1", 16>>, <<"FWD DG RU", "DG2", 16>>,
                     <<"AFT DG RU", "DG3", 12>>, <<"AFT DG RU", "DG4", 12>>} :
           \A n \in 1..c[3] :
              Cardinality({k \in DOMAIN csv.rows :
                              /\ CsvGet(k, "Engine ID") = ships[a] \o "_" \o c[2]
                              /\ CsvGet(k, "Fuel Pump ID") = c[2] \o "_Pump_" \o ToString(n)
                              /\ CsvGet(k, "Fuel Tank Feed") = c[1]}) = NumMonths

\* C4 witness: the CSV is written and has more rows than the sample frame.
C4_Witness == pc = "done" /\ Len(csv.rows) > Len(df.rows) /\ Len(df.rows) > 0

\* The sample (cfu, water content, filter blocking) held by row k of a frame.
FrameSample(frame, k) ==
    [m \in {CFU, WATER, FBT} |-> frame.rows[k][LabelPositions(frame.columns, m)[1]][1]]

\* C8 as stated: every row of the CSV is a complete record: Fuel Tank, Date
\* and the eight metrics are present, Fuel Tank equals Fuel Tank Feed, the
\* sample's ship is the failure record's ship, and the failure time is one
\* generate_failure_time can return for the row's own metrics.
C8_Original ==
    pc = "done" =>
        \A k \in DOMAIN csv.rows :
            /\ CsvGet(k, "Fuel Tank") # ""
            /\ CsvGet(k, "Date") # ""
            /\ \A m \in MetricSet : CsvGet(k, m) # ""
            /\ CsvGet(k, "Fuel Tank") = CsvGet(k, "Fuel Tank Feed")
            /\ \A i, j \in DOMAIN csv.header :
                  (csv.header[i] = "Ship" /\ csv.header[j] = "Ship")
                      => csv.rows[k][i] = csv.rows[k][j]
            /\ \E u \in 80..120 :
                  reordered_df_complete.rows[k][
                      LabelPositions(reordered_df_complete.columns,
                                     "Time Til Failure (hours)")[1]][1]
                    = generate_failure_time(FrameSample(reordered_df_complete, k), u)

\* C9: the reset loop overwrites exactly NumResets pairwise distinct indices,
\* the same for all eight arrays; each overwritten element lies in the
\* metric's base range; every other element keeps the value
\* max(0, start - i*drift + noise) written by gradual_degrade; the arrays
\* keep their length len(date_range).
C9_ResetFrame ==
    [][ /\ pc = "degrade" =>
              \A m \in MetricSet :
                  /\ Len(vals'[m]) = NumMonths
                  /\ \A i \in 1..NumMonths : \E z \in (-NoiseZ)..NoiseZ :
                        vals'[m][i] = Max(0, start[m] - (i - 1) * drift_of[m] + noise_sd * z)
        /\ pc = "choose_reset" =>
              /\ Len(reset_points') = 3
              /\ Cardinality({reset_points'[j] : j \in DOMAIN reset_points'}) = 3
              /\ \A j \in DOMAIN reset_points' : reset_points'[j] \in 1..NumMonths
        /\ pc = "reset" =>
              /\ reset_points' = reset_points
              /\ rk \in 1..3
              /\ pc' = "rows" <=> rk = 3
              /\ \A m \in MetricSet :
                    /\ Len(vals'[m]) = NumMonths
                    /\ vals'[m][reset_points[rk]] >= base_range[m][1]
                    /\ vals'[m][reset_points[rk]] < base_range[m][2]
                    /\ \A i \in 1..NumMonths :
                          i # reset_points[rk] => vals'[m][i] = vals[m][i]
      ]_vars

\* C9 witness: the resets of a series are done, on three distinct indices,
\* and an element outside them has drifted below its base range.
C9_Witness ==
    /\ pc = "rows"
    /\ Cardinality(AppliedResets) = 3
    /\ \E i \in (1..NumMonths) \ AppliedResets : vals[CFU][i] < base_range[CFU][1]
    /\ \A i \in AppliedResets : vals[CFU][i] >= base_range[CFU][1]

\* Value of key in a failure record.
RecGet(rec, key) == DictGet(rec, key)[1]

\* Number of failure records the loop appends for the first r rows of df.
RECURSIVE BlockEnd(_)
BlockEnd(r) ==
    IF r = 0 THEN 0
    ELSE BlockEnd(r - 1) +
         (IF df.rows[r][2][1] = "FWD DG RU" THEN 16 + 16 ELSE 12 + 12)

\* The records to look at in the current state: inside the loop the record
\* just appended (the earlier ones were looked at when they were), after the
\* loop all of them.
RecordsInView ==
    IF pc = "failure_df" THEN DOMAIN failure_data_complete
    ELSE IF pc = "failure" THEN {Len(failure_data_complete)} \ {0}
    ELSE {}

\* C10: every failure record respects the tank -> engines -> pumps mapping
\* (FWD DG RU: DG1, DG2 with pumps 1..16; AFT DG RU: DG3, DG4 with pumps
\* 1..12), Engine ID is <ship>_<engine>, Fuel Pump ID is <engine>_Pump_<n>,
\* and the records of one sample row hold each (engine, pump) exactly once.
C10_TankEnginePumpMapping ==
    /\ \A k \in RecordsInView :
          LET rec    == failure_data_complete[k]
              feed   == RecGet(rec, "Fuel Tank Feed")
              engine == RecGet(rec, "Engine")
              maxp   == IF feed = "FWD DG RU" THEN 16 ELSE 12
          IN  /\ feed \in {"FWD DG RU", "AFT DG RU"}
              /\ feed = "FWD DG RU" => engine \in {"DG1", "DG2"}
              /\ feed = "AFT DG RU" => engine \in {"DG3", "DG4"}
              /\ \E n \in 1..maxp :
                    RecGet(rec, "Fuel Pump ID") = engine \o "_Pump_" \o ToString(n)
              /\ RecGet(rec, "Engine ID") = RecGet(rec, "Ship") \o "_" \o engine
    /\ pc = "failure_df" =>
          /\ Len(failure_data_complete) = BlockEnd(Len(df.rows))
          /\ \A r \in DOMAIN df.rows :
                LET tank  == df.rows[r][2][1]
                    block == (BlockEnd(r - 1) + 1)..BlockEnd(r)
                    maxp  == IF tank = "FWD DG RU" THEN 16 ELSE 12
                    engs  == IF tank = "FWD DG RU" THEN {"DG1", "DG2"} ELSE {"DG3", "DG4"}
                IN  /\ \A k \in block :
                          /\ RecGet(failure_data_complete[k], "Fuel Tank Feed") = tank
                          /\ RecGet(failure_data_complete[k], "Ship") = df.rows[r][1][1]
                    /\ \A e \in engs : \A n \in 1..maxp :
                          Cardinality({k \in block :
                              /\ RecGet(failure_data_complete[k], "Engine") = e
                              /\ RecGet(failure_data_complete[k], "Fuel Pump ID")
                                    = e \o "_Pump_" \o ToString(n)}) = 1

\* C10 witness: the loop is finished and has produced the last pump of DG4
\* for the aft tank and the last pump of DG1 for the forward tank.
C10_Witness ==
    /\ pc = "failure_df"
    /\ \E k \in DOMAIN failure_data_complete :
          /\ RecGet(failure_data_complete[k], "Fuel Tank Feed") = "AFT DG RU"
          /\ RecGet(failure_data_complete[k], "Fuel Pump ID") = "DG4_Pump_12"
    /\ \E k \in DOMAIN failure_data_complete :
          /\ RecGet(failure_data_complete[k], "Fuel Tank Feed") = "FWD DG RU"
          /\ RecGet(failure_data_complete[k], "Fuel Pump ID") = "DG1_Pump_16"

=============================================================================
